---- MODULE Spec2Model ----
(***************************************************************************)
(* SAST-Blame: src/analyzer.py.                                            *)
(*                                                                         *)
(* SastAnalyzer.analyze_repository runs Semgrep, then for every finding    *)
(* asks get_blame_info for the authorship of the reported line and stores  *)
(* {sast, blame} under the key "file:line".                                *)
(*                                                                         *)
(* Text that the code inspects character by character (the repository      *)
(* locator, file paths, mapping keys, formatted dates) is a sequence of     *)
(* one-character strings; opaque text (messages, rule ids, author names,    *)
(* commit ids) is a TLA+ string.                                            *)
(***************************************************************************)
EXTENDS Integers, Sequences, FiniteSets

(***************************************************************************)
(* Bounds of the model.                                                    *)
(***************************************************************************)
\* longest `results` array Semgrep prints
MaxFindings == 2
\* longest blame annotation sequence of a file (SpecBlame)
MaxRanges == 2
\* last line number of a blamed file (SpecBlame)
MaxLine == 2
\* number of parts a repository locator is assembled from (SpecSelect)
MaxParts == 2
\* largest line number of a finding in the key check (SpecKey)
MaxKeyLine == 12

(***************************************************************************)
(* Python text operations.                                                 *)
(***************************************************************************)
\* `sub in s` on str: sub occurs in s as a contiguous substring
In(sub, s) ==
    \E k \in 0..(Len(s) - Len(sub)) : SubSeq(s, k + 1, k + Len(sub)) = sub

Digit == <<"0","1","2","3","4","5","6","7","8","9">>

RECURSIVE StrNat(_)
\* str(n) for n >= 0: decimal digits, no leading zero
StrNat(n) ==
    IF n < 10 THEN <<Digit[n + 1]>>
    ELSE StrNat(n \div 10) \o <<Digit[(n % 10) + 1]>>

\* str(n) of a Python int, as an f-string renders it
Str(n) == IF n < 0 THEN <<"-">> \o StrNat(0 - n) ELSE StrNat(n)

\* "%02d" / "%04d" zero padding used by datetime.isoformat()
Pad(n, width) ==
    LET d == StrNat(n)
    IN  [k \in 1..(IF Len(d) < width THEN width - Len(d) ELSE 0) |-> "0"] \o d

\* datetime.isoformat() of a naive datetime: YYYY-MM-DDTHH:MM:SS
IsoFormat(dt) ==
    Pad(dt.year, 4) \o <<"-">> \o Pad(dt.month, 2) \o <<"-">> \o Pad(dt.day, 2)
    \o <<"T">> \o Pad(dt.hour, 2) \o <<":">> \o Pad(dt.minute, 2)
    \o <<":">> \o Pad(dt.second, 2)

(***************************************************************************)
(* Data model.                                                             *)
(***************************************************************************)
\* Python None (an Optional[BlameInfo] without a value)
None == [none |-> TRUE]

\* class SastResult(BaseModel), built from one element of Semgrep's results
SastResult(finding) ==
    [file     |-> finding.path,
     line     |-> finding.start.line,
     message  |-> finding.extra.message,
     severity |-> finding.extra.severity,
     rule_id  |-> finding.check_id]

\* class BlameInfo(BaseModel)
BlameInfo(author, commit, date) ==
    [author |-> author, commit |-> commit, date |-> date]

\* the outcome of a call: a returned value or a raised exception
Returned(v) == [raised |-> FALSE, value |-> v]
Raised == [raised |-> TRUE, value |-> None]

VARIABLES
    gitlab_client,     \* self.gitlab_client is not None
    github_client,     \* self.github_client is not None
    repo_url,          \* the repository locator passed to analyze_repository
    proc,              \* what the semgrep process does when it is run
    remote,            \* blame hunks of the files of the hosted repository
    pc,                \* position in analyze_repository
    sast_results,      \* list returned by run_semgrep
    i,                 \* 1-based index of `result` in the for loop
    enriched_results,  \* the mapping being built
    resp,              \* the provider's answer to the pending blame fetch
    calls,             \* provider lookups issued so far, in order, with what each did
    returned,          \* value of `blame` in every completed iteration
    error              \* exception that escaped analyze_repository

vars == <<gitlab_client, github_client, repo_url, proc, remote, pc,
          sast_results, i, enriched_results, resp, calls, returned, error>>

(***************************************************************************)
(* run_semgrep.                                                            *)
(***************************************************************************)
\* the subscripts of lines 47-51 all succeed on this element
HasFields(finding) ==
    /\ {"path", "start", "extra", "check_id"} \subseteq DOMAIN finding
    /\ "line" \in DOMAIN finding.start
    /\ {"message", "severity"} \subseteq DOMAIN finding.extra

\* findings.get("results", [])
GetResults(doc) ==
    IF "results" \in DOMAIN doc.members THEN doc.members.results ELSE <<>>

\* the body of the try block of run_semgrep; result.returncode is never read
run_semgrep_try(p) ==
    IF ~p.executed THEN Raised                      \* subprocess.run raises OSError
    ELSE IF ~p.stdout.json THEN Raised              \* json.loads raises
    ELSE IF ~p.stdout.doc.is_dict THEN Raised       \* no attribute get
    ELSE LET results == GetResults(p.stdout.doc)
         IN  IF \E k \in 1..Len(results) : ~HasFields(results[k])
             THEN Raised                            \* KeyError
             ELSE Returned([k \in 1..Len(results) |-> SastResult(results[k])])

\* run_semgrep: every exception of the body becomes RuntimeError
run_semgrep(p) ==
    LET r == run_semgrep_try(p)
    IN  IF r.raised THEN [raised |-> TRUE, value |-> "RuntimeError"] ELSE r

(***************************************************************************)
(* The hosting services.  `remote` holds, per file of the repository, the  *)
(* blame hunks [start, end, commit]; each client library hands them to the *)
(* analyzer in its own shape.                                              *)
(***************************************************************************)
gitlab == <<"g","i","t","l","a","b">>
github == <<"g","i","t","h","u","b">>

\* python-gitlab: project.repository_blob(file_path).blame(), a list of dicts
GitlabBlame(hunks) ==
    [k \in 1..Len(hunks) |->
        [lines  |-> [start |-> hunks[k].start, end |-> hunks[k].end],
         commit |-> [author_name    |-> hunks[k].commit.author,
                     id             |-> hunks[k].commit.id,
                     committed_date |-> IsoFormat(hunks[k].commit.date) \o <<"Z">>]]]

\* PyGithub: repo.get_contents(file_path).blame(), a list of objects whose
\* `lines` lists the line numbers of the hunk, first to last
GithubBlame(hunks) ==
    [k \in 1..Len(hunks) |->
        [lines  |-> [n \in 1..(hunks[k].end - hunks[k].start + 1) |->
                        hunks[k].start + n - 1],
         commit |-> [author         |-> [name |-> hunks[k].commit.author],
                     sha            |-> hunks[k].commit.id,
                     committed_date |-> hunks[k].commit.date]]]

\* a response body that is not a blame annotation list (an error document)
Malformed == <<[message |-> "error"]>>

\* what a provider call can do for `file`: fail (lines 79-80 / 99-100 raise),
\* answer with something else than annotations, or answer with the annotations
Outcomes(file) ==
    {"network_error", "auth_error", "missing_file", "malformed"}
    \cup (IF file \in DOMAIN remote THEN {"ok"} ELSE {})

Response(provider, outcome, file) ==
    [kind  |-> outcome,
     blame |-> IF outcome = "malformed" THEN Malformed
               ELSE IF outcome # "ok" THEN <<>>
               ELSE IF provider = "gitlab" THEN GitlabBlame(remote[file])
               ELSE GithubBlame(remote[file])]

NoResponse == [kind |-> "none", blame |-> <<>>]

(***************************************************************************)
(* get_blame_info and the two providers.                                   *)
(***************************************************************************)
\* a faulty variant of get_blame_info: the GitLab arm does not test the client
get_blame_info_NoClientTest(gl, gh, url) ==
    IF In(gitlab, url) THEN "gitlab"
    ELSE IF gh /\ In(github, url) THEN "github"
    ELSE "none"

\* a faulty variant of get_blame_info: the GitHub arm does not test the client
get_blame_info_NoGithubClientTest(gl, gh, url) ==
    IF gl /\ In(gitlab, url) THEN "gitlab"
    ELSE IF In(github, url) THEN "github"
    ELSE "none"

\* get_blame_info, lines 65-69: the branch taken
get_blame_info(gl, gh, url) ==
    IF gl /\ In(gitlab, url) THEN "gitlab"
    ELSE IF gh /\ In(github, url) THEN "github"
    ELSE "none"

\* a faulty variant of GitlabMatch: the end of the range is excluded
GitlabMatch_Exclusive(entry, line) ==
    entry.lines.start <= line /\ line < entry.lines.end

\* line 82
GitlabMatch(entry, line) ==
    entry.lines.start <= line /\ line <= entry.lines.end

\* line 102: lines[0] <= line <= lines[-1]
GithubMatch(entry, line) ==
    entry.lines[1] <= line /\ line <= entry.lines[Len(entry.lines)]

RECURSIVE GitlabLoop(_, _, _)
\* lines 81-87 from entry k on; falling off the loop returns None
GitlabLoop(blame, k, line) ==
    IF k > Len(blame) THEN Returned(None)
    ELSE LET entry == blame[k]
         IN  IF "lines" \notin DOMAIN entry THEN Raised          \* KeyError
             ELSE IF GitlabMatch(entry, line)
             THEN IF "commit" \notin DOMAIN entry THEN Raised    \* KeyError
                  ELSE Returned(BlameInfo(entry.commit.author_name,
                                          entry.commit.id,
                                          entry.commit.committed_date))
             ELSE GitlabLoop(blame, k + 1, line)

RECURSIVE GithubLoop(_, _, _)
\* lines 101-108 from entry k on; falling off the loop returns None
GithubLoop(blame, k, line) ==
    IF k > Len(blame) THEN Returned(None)
    ELSE LET entry == blame[k]
         IN  IF "lines" \notin DOMAIN entry THEN Raised          \* AttributeError
             ELSE IF Len(entry.lines) = 0 THEN Raised            \* IndexError
             ELSE IF GithubMatch(entry, line)
             THEN IF "commit" \notin DOMAIN entry THEN Raised    \* AttributeError
                  ELSE Returned(BlameInfo(entry.commit.author.name,
                                          entry.commit.sha,
                                          IsoFormat(entry.commit.committed_date)))
             ELSE GithubLoop(blame, k + 1, line)

\* the body of the try block of _get_gitlab_blame, lines 79-87
get_gitlab_blame_try(r, line) ==
    IF r.kind \in {"network_error", "auth_error", "missing_file"} THEN Raised
    ELSE GitlabLoop(r.blame, 1, line)

\* the body of the try block of _get_github_blame, lines 99-108
get_github_blame_try(r, line) ==
    IF r.kind \in {"network_error", "auth_error", "missing_file"} THEN Raised
    ELSE GithubLoop(r.blame, 1, line)

\* a faulty variant of _get_gitlab_blame: the exception is not caught
get_gitlab_blame_NoExcept(r, line) == get_gitlab_blame_try(r, line)

\* _get_gitlab_blame: except Exception: return None
_get_gitlab_blame(r, line) ==
    LET out == get_gitlab_blame_try(r, line)
    IN  IF out.raised THEN Returned(None) ELSE out

\* _get_github_blame: except Exception: return None
_get_github_blame(r, line) ==
    LET out == get_github_blame_try(r, line)
    IN  IF out.raised THEN Returned(None) ELSE out

(***************************************************************************)
(* analyze_repository.                                                     *)
(***************************************************************************)
\* a faulty variant of Key: file and line joined without the separator
Key_NoSeparator(file, line) == file \o Str(line)

\* f"{result.file}:{result.line}"
Key(file, line) == file \o <<":">> \o Str(line)

\* a faulty variant of Store: an existing key keeps its first value
Store_KeepFirst(m, k, v) ==
    [x \in DOMAIN m \cup {k} |-> IF x \in DOMAIN m THEN m[x] ELSE v]

\* a faulty variant of Store: an entry without blame is left out
Store_SkipUnknown(m, k, v) ==
    IF v.blame = None THEN m
    ELSE [x \in DOMAIN m \cup {k} |-> IF x = k THEN v ELSE m[x]]

\* enriched_results[k] = v
Store(m, k, v) ==
    [x \in DOMAIN m \cup {k} |-> IF x = k THEN v ELSE m[x]]

\* enriched_results = {}
EmptyDict == [x \in {} |-> None]

\* lines 123-126 and the step to the next finding
Enrich(blame) ==
    LET result == sast_results[i]
    IN  /\ enriched_results' =
              Store(enriched_results, Key(result.file, result.line),
                    [sast |-> result, blame |-> blame])
        /\ returned' = Append(returned, blame)
        /\ i' = i + 1
        /\ pc' = "loop"

\* an exception leaves get_blame_info: nothing in analyze_repository catches it
Propagate ==
    /\ pc' = "failed"
    /\ error' = "Exception"
    /\ UNCHANGED <<enriched_results, returned, i>>

\* line 118: sast_results = self.run_semgrep(path); line 119
RunSemgrep ==
    /\ pc = "start"
    /\ LET r == run_semgrep(proc)
       IN  IF r.raised
           THEN /\ pc' = "failed"
                /\ error' = r.value
                /\ UNCHANGED <<sast_results, enriched_results, i>>
           ELSE /\ pc' = "loop"
                /\ sast_results' = r.value
                /\ enriched_results' = EmptyDict
                /\ i' = 1
                /\ UNCHANGED error
    /\ UNCHANGED <<gitlab_client, github_client, repo_url, proc, remote,
                   resp, calls, returned>>

\* one iteration in which get_blame_info reaches `return None` (line 69)
StoreUnknown ==
    /\ pc = "loop"
    /\ i <= Len(sast_results)
    /\ get_blame_info(gitlab_client, github_client, repo_url) = "none"
    /\ Enrich(None)
    /\ UNCHANGED <<gitlab_client, github_client, repo_url, proc, remote,
                   sast_results, resp, calls, error>>

\* the provider call of an iteration: lines 66 / 68 up to the fetched blame
Fetch(provider, next) ==
    /\ pc = "loop"
    /\ i <= Len(sast_results)
    /\ get_blame_info(gitlab_client, github_client, repo_url) = provider
    /\ LET result == sast_results[i]
       IN  \E outcome \in Outcomes(result.file) :
               /\ resp' = Response(provider, outcome, result.file)
               /\ calls' = Append(calls, [provider |-> provider,
                                          repo_url |-> repo_url,
                                          file     |-> result.file,
                                          line     |-> result.line,
                                          outcome  |-> outcome])
    /\ pc' = next
    /\ UNCHANGED <<gitlab_client, github_client, repo_url, proc, remote,
                   sast_results, i, enriched_results, returned, error>>

GitlabFetch == Fetch("gitlab", "gitlab_scan")

GithubFetch == Fetch("github", "github_scan")

\* a faulty variant of GitlabScan: a lookup that gave None is issued again
GitlabScan_Retry ==
    /\ pc = "gitlab_scan"
    /\ LET out == _get_gitlab_blame(resp, sast_results[i].line)
       IN  IF out.value = None
           THEN pc' = "loop" /\ UNCHANGED <<enriched_results, returned, i>>
           ELSE Enrich(out.value)
    /\ resp' = NoResponse
    /\ UNCHANGED <<gitlab_client, github_client, repo_url, proc, remote,
                   sast_results, calls, error>>

\* the rest of the iteration: the scan of _get_gitlab_blame, then lines 123-126
GitlabScan ==
    /\ pc = "gitlab_scan"
    /\ LET out == _get_gitlab_blame(resp, sast_results[i].line)
       IN  IF out.raised
           THEN Propagate
           ELSE Enrich(out.value) /\ UNCHANGED error
    /\ resp' = NoResponse
    /\ UNCHANGED <<gitlab_client, github_client, repo_url, proc, remote,
                   sast_results, calls>>

\* the rest of the iteration: the scan of _get_github_blame, then lines 123-126
GithubScan ==
    /\ pc = "github_scan"
    /\ LET out == _get_github_blame(resp, sast_results[i].line)
       IN  IF out.raised
           THEN Propagate
           ELSE Enrich(out.value) /\ UNCHANGED error
    /\ resp' = NoResponse
    /\ UNCHANGED <<gitlab_client, github_client, repo_url, proc, remote,
                   sast_results, calls>>

\* line 128
Return ==
    /\ pc = "loop"
    /\ i > Len(sast_results)
    /\ pc' = "done"
    /\ UNCHANGED <<gitlab_client, github_client, repo_url, proc, remote,
                   sast_results, i, enriched_results, resp, calls, returned, error>>

Next ==
    \/ RunSemgrep
    \/ StoreUnknown
    \/ GitlabFetch
    \/ GitlabScan
    \/ GithubFetch
    \/ GithubScan
    \/ Return

(***************************************************************************)
(* Inputs: the Semgrep process, the hosted repository, the locator.        *)
(***************************************************************************)
\* all sequences over S of length at most n
SeqsUpTo(S, n) == UNION {[1..k -> S] : k \in 0..n}

RECURSIVE Concat(_)
\* the parts of a locator joined into one string
Concat(parts) ==
    IF Len(parts) = 0 THEN <<>> ELSE Head(parts) \o Concat(Tail(parts))

fileA == <<"a",".","p","y">>
fileB == <<"b",".","p","y">>

\* one element of Semgrep's `results` array, as section 6 of the JSON schema
Element(path, line, rule) ==
    [path     |-> path,
     start    |-> [line |-> line],
     extra    |-> [message |-> "finding", severity |-> "ERROR"],
     check_id |-> rule]

\* an element without its `extra` object
Incomplete(path, line, rule) ==
    [path |-> path, start |-> [line |-> line], check_id |-> rule]

NotJson == [json |-> FALSE, doc |-> [is_dict |-> FALSE, members |-> [errors |-> <<>>]]]
JsonList == [json |-> TRUE, doc |-> [is_dict |-> FALSE, members |-> [errors |-> <<>>]]]
JsonNoResults == [json |-> TRUE, doc |-> [is_dict |-> TRUE, members |-> [errors |-> <<>>]]]
JsonResults(rs) ==
    [json |-> TRUE,
     doc  |-> [is_dict |-> TRUE, members |-> [results |-> rs, errors |-> <<>>]]]

\* the process could not be started
NotExecuted == [executed |-> FALSE, returncode |-> 0, stdout |-> NotJson]
Exited(rc, out) == [executed |-> TRUE, returncode |-> rc, stdout |-> out]

ann == [author |-> "Ann", id |-> "abc123",
        date |-> [year |-> 2024, month |-> 1, day |-> 1,
                  hour |-> 0, minute |-> 0, second |-> 0]]
bob == [author |-> "Bob", id |-> "def456",
        date |-> [year |-> 2023, month |-> 12, day |-> 31,
                  hour |-> 23, minute |-> 59, second |-> 59]]

Hunk(s, e, c) == [start |-> s, end |-> e, commit |-> c]

dotcom == <<".","c","o","m","/","g","/","p">>
GitLabMixed == <<"G","i","t","L","a","b">>
GITHUB == <<"G","I","T","H","U","B">>
example == <<"e","x","a","m","p","l","e">>

MainElements ==
    {Element(fileA, 1, "r1"), Element(fileA, 1, "r2"), Element(fileA, 2, "r1"),
     Element(fileB, 2, "r1"), Incomplete(fileB, 1, "r1")}

MainProcs ==
    {NotExecuted}
    \cup {Exited(rc, out) :
            rc \in {0, 2},
            out \in {NotJson, JsonList, JsonNoResults}
                    \cup {JsonResults(rs) : rs \in SeqsUpTo(MainElements, MaxFindings)}}

MainRemotes ==
    {[f \in {fileA, fileB} |->
         IF f = fileA THEN <<Hunk(1, 1, ann), Hunk(2, 3, bob)>>
         ELSE <<Hunk(1, 1, bob), Hunk(3, 9, ann)>>],
     [f \in {fileA} |-> <<Hunk(1, 20, ann)>>]}

MainLocators ==
    {gitlab \o dotcom, github \o dotcom, GitLabMixed \o dotcom, example \o dotcom}

Start(gl, gh, url, p, rem) ==
    /\ gitlab_client = gl
    /\ github_client = gh
    /\ repo_url = url
    /\ proc = p
    /\ remote = rem
    /\ pc = "start"
    /\ sast_results = <<>>
    /\ i = 0
    /\ enriched_results = EmptyDict
    /\ resp = NoResponse
    /\ calls = <<>>
    /\ returned = <<>>
    /\ error = "none"

\* an analyzer built with any of the four credential combinations, about to
\* run analyze_repository
Init ==
    \E gl \in BOOLEAN, gh \in BOOLEAN, url \in MainLocators,
       p \in MainProcs, rem \in MainRemotes :
        Start(gl, gh, url, p, rem)

Spec == Init /\ [][Next]_vars

(***************************************************************************)
(* SpecSelect: provider selection over locators assembled from markers in  *)
(* several letter cases.                                                   *)
(***************************************************************************)
Parts == {gitlab, github, GitLabMixed, GITHUB, <<"x", "/">>}

Locators == {Concat(ps) : ps \in SeqsUpTo(Parts, MaxParts)}

SelectProc ==
    Exited(0, JsonResults(<<Element(fileA, 1, "r1"), Element(fileB, 2, "r1")>>))

SelectRemote ==
    [f \in {fileA, fileB} |->
        IF f = fileA THEN <<Hunk(1, 1, ann), Hunk(2, 3, bob)>>
        ELSE <<Hunk(1, 1, bob), Hunk(3, 9, ann)>>]

InitSelect ==
    \E gl \in BOOLEAN, gh \in BOOLEAN, url \in Locators :
        Start(gl, gh, url, SelectProc, SelectRemote)

SpecSelect == InitSelect /\ [][Next]_vars

(***************************************************************************)
(* SpecBlame: one finding looked up against every annotation sequence of   *)
(* the bounds.                                                             *)
(***************************************************************************)
Hunks ==
    {Hunk(s, e, c) : s \in 1..MaxLine, e \in 1..MaxLine, c \in {ann, bob}}

OrderedHunks == {h \in Hunks : h.start <= h.end}

BlameConfigs ==
    {<<TRUE, FALSE, gitlab \o dotcom>>,
     <<FALSE, TRUE, github \o dotcom>>,
     <<FALSE, FALSE, example \o dotcom>>}

InitBlame ==
    \E cfg \in BlameConfigs, line \in 1..(MaxLine + 1),
       hs \in SeqsUpTo(OrderedHunks, MaxRanges) :
        Start(cfg[1], cfg[2], cfg[3],
              Exited(0, JsonResults(<<Element(fileA, line, "r1")>>)),
              [f \in {fileA} |-> hs])

SpecBlame == InitBlame /\ [][Next]_vars

(***************************************************************************)
(* SpecKey: two findings whose paths contain ':' and digits, keyed by an   *)
(* analyzer without credentials (the provider actions are never enabled).  *)
(***************************************************************************)
KeyFiles == {<<"a">>, <<"a", "1">>, <<"a", ":", "1">>, <<"a", ":">>, <<"1">>}

KeyLines == (0 - 1)..MaxKeyLine

InitKey ==
    \E f1 \in KeyFiles, f2 \in KeyFiles, l1 \in KeyLines, l2 \in KeyLines :
        Start(FALSE, FALSE, example \o dotcom,
              Exited(0, JsonResults(<<Element(f1, l1, "r1"), Element(f2, l2, "r2")>>)),
              [f \in {} |-> <<>>])

NextKey ==
    \/ RunSemgrep
    \/ StoreUnknown
    \/ Return

SpecKey == InitKey /\ [][NextKey]_vars

(***************************************************************************)
(* Properties.                                                             *)
(***************************************************************************)
Upper == <<"A","B","C","D","E","F","G","H","I","J","K","L","M",
           "N","O","P","Q","R","S","T","U","V","W","X","Y","Z">>
Lower == <<"a","b","c","d","e","f","g","h","i","j","k","l","m",
           "n","o","p","q","r","s","t","u","v","w","x","y","z">>

\* one character in lower case
LowerChar(c) ==
    IF \E k \in 1..26 : Upper[k] = c
    THEN Lower[CHOOSE k \in 1..26 : Upper[k] = c]
    ELSE c

\* a locator spelled in lower case; the analyzer itself never changes case
LowerStr(s) == [k \in 1..Len(s) |-> LowerChar(s[k])]

Scanning == pc \in {"gitlab_scan", "github_scan"}

\* the finding at the same (file, line) as finding j that is processed last
LastAt(j) ==
    CHOOSE m \in 1..Len(sast_results) :
        /\ sast_results[m].file = sast_results[j].file
        /\ sast_results[m].line = sast_results[j].line
        /\ \A n \in (m + 1)..Len(sast_results) :
               \/ sast_results[n].file # sast_results[j].file
               \/ sast_results[n].line # sast_results[j].line

\* the (file, line) pairs of the findings
Locations ==
    {<<sast_results[j].file, sast_results[j].line>> : j \in 1..Len(sast_results)}

\* the hunks of the hosted file that contain the line, both ends included
Covering(file, line) ==
    {k \in 1..Len(remote[file]) :
        remote[file][k].start <= line /\ line <= remote[file][k].end}

\* the pending lookup cannot produce a blame record: the fetch failed, the
\* answer is no annotation list, or no hunk contains the line
LookupFails ==
    \/ resp.kind # "ok"
    \/ Covering(sast_results[i].file, sast_results[i].line) = {}

\* no backend has both its client configured and its marker, in any letter
\* case, in the locator
NoConfiguredMatch ==
    /\ ~(gitlab_client /\ In(gitlab, LowerStr(repo_url)))
    /\ ~(github_client /\ In(github, LowerStr(repo_url)))

\* C1: a blame lookup that fails (network or authentication error, missing
\* file, malformed response, no matching range) stores blame None for its
\* finding, raises nothing out of analyze_repository and leaves the entries
\* of the findings at other locations as they were; only run_semgrep makes
\* analyze_repository fail.
C1_LookupFailureIsolated ==
    /\ [](pc = "failed" => calls = <<>> /\ error = "RuntimeError")
    /\ [](\A j \in 1..Len(calls) :
              (j <= Len(returned) /\ calls[j].outcome # "ok") => returned[j] = None)
    /\ [][Scanning =>
            LET result == sast_results[i]
            IN  /\ pc' = "loop"
                /\ error' = "none"
                /\ \E x \in DOMAIN enriched_results' :
                       /\ enriched_results'[x].sast = result
                       /\ LookupFails => enriched_results'[x].blame = None
                /\ \A x \in DOMAIN enriched_results :
                       (\/ enriched_results[x].sast.file # result.file
                        \/ enriched_results[x].sast.line # result.line)
                       => /\ x \in DOMAIN enriched_results'
                          /\ enriched_results'[x] = enriched_results[x]]_vars

\* C1 witness: the first lookup hit a network error, the run finished, the
\* first entry has no blame and the second finding, elsewhere, is resolved.
C1_Witness ==
    /\ pc = "done"
    /\ Len(calls) = 2
    /\ calls[1].outcome = "network_error"
    /\ returned[1] = None
    /\ returned[2] # None
    /\ Cardinality(DOMAIN enriched_results) = 2

\* the static-analysis collaborator failed in one of the ways section 6 lists
CollaboratorFailed ==
    \/ ~proc.executed
    \/ proc.returncode # 0
    \/ ~proc.stdout.json
    \/ ~proc.stdout.doc.is_dict
    \/ "results" \notin DOMAIN proc.stdout.doc.members
    \/ \E k \in 1..Len(proc.stdout.doc.members.results) :
           ~HasFields(proc.stdout.doc.members.results[k])

\* C2: when the static-analysis collaborator fails (not executable, non-zero
\* exit, stdout not JSON, no results array, an element without a required
\* field), analyze_repository fails with the analysis error, issues no blame
\* lookup and returns no mapping.
C2_CollaboratorFailureIsFatal ==
    CollaboratorFailed =>
        /\ pc \in {"start", "failed"}
        /\ pc = "failed" => error = "RuntimeError"
        /\ calls = <<>>
        /\ returned = <<>>

\* C3: the returned mapping has exactly one entry, keyed file ":" line, for
\* every finding, no other key, and as many entries as there are distinct
\* (file, line) pairs, whether or not blame was resolved.
C3_OneEntryPerLocation ==
    pc = "done" =>
        /\ \A j \in 1..Len(sast_results) :
               LET f == sast_results[j]
                   k == f.file \o <<":">> \o Str(f.line)
               IN  /\ k \in DOMAIN enriched_results
                   /\ enriched_results[k].sast.file = f.file
                   /\ enriched_results[k].sast.line = f.line
        /\ \A x \in DOMAIN enriched_results :
               \E j \in 1..Len(sast_results) :
                   x = sast_results[j].file \o <<":">> \o Str(sast_results[j].line)
        /\ Cardinality(DOMAIN enriched_results) = Cardinality(Locations)

\* C3 witness: a finished run over two findings at two locations, one entry
\* with blame and one without.
C3_Witness ==
    /\ pc = "done"
    /\ Len(sast_results) = 2
    /\ Cardinality(DOMAIN enriched_results) = 2
    /\ \E x \in DOMAIN enriched_results : enriched_results[x].blame = None
    /\ \E x \in DOMAIN enriched_results : enriched_results[x].blame # None

\* C4: when the locator matches no configured provider (zero credentials
\* included), every entry has blame None and no provider call is made at
\* any point of the run.
C4_NoProviderNoCall ==
    NoConfiguredMatch =>
        /\ calls = <<>>
        /\ ~Scanning
        /\ resp = NoResponse
        /\ \A x \in DOMAIN enriched_results : enriched_results[x].blame = None

\* C4 witness: an analyzer without credentials finished a run over two
\* findings of a GitLab-hosted repository.
C4_Witness ==
    /\ pc = "done"
    /\ ~gitlab_client /\ ~github_client
    /\ In(gitlab, repo_url)
    /\ Cardinality(DOMAIN enriched_results) = 2

\* the ISO-8601 text of the two commit dates of the inputs
annDate ==
    <<"2","0","2","4","-","0","1","-","0","1","T","0","0",":","0","0",":","0","0">>
bobDate ==
    <<"2","0","2","3","-","1","2","-","3","1","T","2","3",":","5","9",":","5","9">>

\* the blame record of a hunk's commit, as the provider reports it (GitLab
\* sends the date as text with a zone suffix, GitHub as a datetime)
RecordOf(provider, c) ==
    [author |-> c.author,
     commit |-> c.id,
     date   |-> (IF c = ann THEN annDate ELSE bobDate)
                \o (IF provider = "gitlab" THEN <<"Z">> ELSE <<>>)]

\* C5: for both providers, a lookup whose fetch succeeded returns a record if
\* and only if some fetched range has start <= line <= end, both ends
\* included, and the record is that of the commit of a range containing the
\* line; otherwise it returns None.
C5_InclusiveRange ==
    \A j \in 1..Len(calls) :
        (j <= Len(returned) /\ calls[j].outcome = "ok") =>
            LET hunks == remote[calls[j].file]
                cover == Covering(calls[j].file, calls[j].line)
            IN  /\ returned[j] # None <=> cover # {}
                /\ cover # {} =>
                       \E k \in cover :
                           returned[j] = RecordOf(calls[j].provider, hunks[k].commit)

\* C5 witness: a GitHub lookup of the last line of a two-line range, which
\* no other range contains, returned that range's commit.
C5_Witness ==
    /\ pc = "done"
    /\ Len(calls) = 1
    /\ calls[1].provider = "github"
    /\ calls[1].outcome = "ok"
    /\ returned[1] # None
    /\ \A k \in Covering(calls[1].file, calls[1].line) :
           /\ remote[calls[1].file][k].end = calls[1].line
           /\ remote[calls[1].file][k].start < calls[1].line

\* C6: when several findings share (file, line), the single entry of that key
\* holds the finding processed last and the blame of that finding's lookup.
C6_LastWriteWins ==
    pc = "done" =>
        \A j \in 1..Len(sast_results) :
            LET f == sast_results[j]
            IN  enriched_results[Key(f.file, f.line)] =
                    [sast |-> sast_results[LastAt(j)], blame |-> returned[LastAt(j)]]

\* C6 witness: two findings at one location; the first was resolved, the
\* second was not, and the run finished.
C6_Witness ==
    /\ pc = "done"
    /\ Len(sast_results) = 2
    /\ Cardinality(Locations) = 1
    /\ sast_results[1] # sast_results[2]
    /\ returned[1] # None
    /\ returned[2] = None

\* C7: provider selection matches the hosting marker in any letter case: the
\* provider used for a locator is the one used for its lower-case spelling.
C7_CaseInsensitiveMarker ==
    Len(returned) > 0 =>
        LET selected == get_blame_info(gitlab_client, github_client, LowerStr(repo_url))
        IN  IF selected = "none" THEN calls = <<>>
            ELSE calls # <<>> /\ calls[1].provider = selected

\* the locator names a backend without client, or names no backend
UnconfiguredOrNeither ==
    \/ In(gitlab, repo_url) /\ ~gitlab_client
    \/ In(github, repo_url) /\ ~github_client
    \/ ~In(gitlab, repo_url) /\ ~In(github, repo_url)

\* C8 as stated: a locator that matches a backend without client, or neither
\* backend, selects no provider, also when it contains both markers and one
\* client is configured.
C8_UnconfiguredSelectsNothing ==
    UnconfiguredOrNeither =>
        /\ calls = <<>>
        /\ \A j \in 1..Len(returned) : returned[j] = None

\* C8 amended: when no backend has both its client configured and its marker
\* in the locator, get_blame_info returns None and calls neither provider.
C8_NoConfiguredMatchSelectsNothing ==
    [][(pc = "loop" /\ i <= Len(sast_results) /\ NoConfiguredMatch) =>
           /\ returned' = Append(returned, None)
           /\ calls' = calls
           /\ resp' = NoResponse
           /\ pc' = "loop"]_vars

\* C8 witness: get_blame_info has answered for a locator that names GitLab
\* only, on an analyzer that holds a GitHub client only.
C8_Witness ==
    /\ In(gitlab, repo_url)
    /\ ~In(github, LowerStr(repo_url))
    /\ ~gitlab_client
    /\ github_client
    /\ Len(returned) > 0

\* C9: with a provider selected, lookups are issued in the order of the
\* findings, one per finding (duplicates included), all to the same provider;
\* a failed lookup is neither repeated nor sent to the other provider.
C9_OneLookupPerFinding ==
    LET started == Len(returned) + (IF Scanning THEN 1 ELSE 0)
    IN  /\ Len(calls) \in {0, started}
        /\ ((gitlab_client /\ In(gitlab, repo_url)) \/ (github_client /\ In(github, repo_url)))
               => Len(calls) = started
        /\ \A j \in 1..Len(calls) :
               /\ j <= Len(sast_results)
               /\ calls[j].file = sast_results[j].file
               /\ calls[j].line = sast_results[j].line
               /\ calls[j].repo_url = repo_url
               /\ calls[j].provider = calls[1].provider
        /\ pc = "done" => Len(returned) = Len(sast_results)

\* C9 witness: both clients configured, two findings at one location, the
\* first lookup failed; the run finished after exactly two lookups.
C9_Witness ==
    /\ pc = "done"
    /\ gitlab_client /\ github_client
    /\ Len(calls) = 2
    /\ Cardinality(Locations) = 1
    /\ calls[1].outcome = "auth_error"

\* C10: two findings are written to the same key exactly when they have the
\* same file and the same line, also for paths with ':' or digits, so every
\* finding's location keeps an entry.
C10_KeyInjective ==
    pc = "done" =>
        /\ \A j \in 1..Len(sast_results) :
               \E x \in DOMAIN enriched_results :
                   /\ enriched_results[x].sast.file = sast_results[j].file
                   /\ enriched_results[x].sast.line = sast_results[j].line
        /\ Cardinality(DOMAIN enriched_results) = Cardinality(Locations)

\* C10 witness: path "a1" at line 2 and path "a" at line 12 ended under two
\* keys.
C10_Witness ==
    /\ pc = "done"
    /\ sast_results[1].file = <<"a", "1">> /\ sast_results[1].line = 2
    /\ sast_results[2].file = <<"a">> /\ sast_results[2].line = 12
    /\ Cardinality(DOMAIN enriched_results) = 2

====
